---- MODULE Spec2Model ----
(***************************************************************************)
(* Model of Realtime-SDK/gpt_4o_transcribe_sdk.py: the RealtimeTranscriber *)
(* SDK session (controller run / connect_and_run, the microphone pump      *)
(* stream_microphone and the dispatcher handle_websocket_messages), run by *)
(* one asyncio event loop.  A coroutine runs without interruption between  *)
(* two awaits, so every action below is one such segment.  The websocket   *)
(* and the audio device are outside the repository: their outcomes (a send *)
(* or a read that raises, messages arriving, the peer closing) are inputs  *)
(* chosen nondeterministically.                                            *)
(***************************************************************************)
EXTENDS Integers, Sequences, FiniteSets, TLC

\* ------------------------------------------------------------------ bounds
\* Frames the pump may read in one run.
MaxFrames == 2
\* Messages the service may deliver in one run.
MaxInbound == 2
\* Messages in the feed the dispatcher is run on by itself.
MaxFeed == 3

VARIABLES
  env,              \* [key, endpoint]: which environment variables are set
  pcCtrl,           \* position of the controller (module load, run, connect_and_run)
  audio_interface,  \* "none" | "live" | "terminated"   (self.audio_interface)
  stream,           \* "none" | "open" | "closed"       (self.stream; never reset to None)
  is_streaming,     \* self.is_streaming, the active flag
  websocket,        \* "none" | "ws"                    (self.websocket; never reset)
  wsState,          \* "none" | "open" | "eof" | "error" | "closed": the channel itself
  pcPump,           \* "idle" | "ready" | "reading" | "sending" | "done"
  pumpExit,         \* why stream_microphone ended
  pending,          \* the message whose send the pump awaits (<<>> when none)
  framesRead,       \* frames returned by stream.read, in order
  overflowed,       \* the last stream.read met an input overflow
  pcDisp,           \* "idle" | "recv" | "done"
  dispExit,         \* why handle_websocket_messages ended
  inbound,          \* messages that arrived and were not yet iterated
  arrivals,         \* number of messages that arrived
  output,           \* what the dispatcher printed, in order
  reported,         \* error reports printed by the controller and the pump
  raised,           \* the exception that leaves the controller ("none" when none)
  sent,             \* messages sent on the channel, in order
  calls,            \* [open, stop, close, terminate, late]: calls made on the collaborators
  hist              \* observations used to state properties (see Hist0)

vars == <<env, pcCtrl, audio_interface, stream, is_streaming,
          websocket, wsState, pcPump, pumpExit, pending, framesRead, overflowed, pcDisp,
          dispExit, inbound, arrivals, output, reported, raised, sent, calls, hist>>

ctrlVars == <<pcCtrl, audio_interface, stream, websocket, raised, calls>>
pumpVars == <<pcPump, pumpExit, pending, framesRead, overflowed>>
dispVars == <<pcDisp, dispExit, output>>
envVars  == <<env>>

\* ------------------------------------------------------------ wire format
\* The base64 alphabet (RFC 4648), as base64.b64encode uses it.
B64Alphabet ==
  << "A","B","C","D","E","F","G","H","I","J","K","L","M","N","O","P",
     "Q","R","S","T","U","V","W","X","Y","Z","a","b","c","d","e","f",
     "g","h","i","j","k","l","m","n","o","p","q","r","s","t","u","v",
     "w","x","y","z","0","1","2","3","4","5","6","7","8","9","+","/" >>

B64Char(n) == B64Alphabet[n + 1]

\* Variant: one group is encoded without "=" padding.
B64Group_NoPadding(b) ==
  LET b1 == b[1]
      b2 == IF Len(b) >= 2 THEN b[2] ELSE 0
      b3 == IF Len(b) >= 3 THEN b[3] ELSE 0
      n  == b1 * 65536 + b2 * 256 + b3
  IN  << B64Char(n \div 262144), B64Char((n \div 4096) % 64),
         B64Char((n \div 64) % 64), B64Char(n % 64) >>

\* One group of 1 to 3 bytes gives 4 characters, padded with "=".
B64Group(b) ==
  LET b1 == b[1]
      b2 == IF Len(b) >= 2 THEN b[2] ELSE 0
      b3 == IF Len(b) >= 3 THEN b[3] ELSE 0
      n  == b1 * 65536 + b2 * 256 + b3
  IN  << B64Char(n \div 262144),
         B64Char((n \div 4096) % 64),
         IF Len(b) >= 2 THEN B64Char((n \div 64) % 64) ELSE "=",
         IF Len(b) >= 3 THEN B64Char(n % 64) ELSE "=" >>

RECURSIVE B64Encode(_)
B64Encode(bytes) ==
  IF Len(bytes) = 0 THEN << >>
  ELSE IF Len(bytes) <= 3 THEN B64Group(bytes)
  ELSE B64Group(SubSeq(bytes, 1, 3)) \o B64Encode(SubSeq(bytes, 4, Len(bytes)))

\* A JSON value is [tag, fields]; an object's fields map its keys to values.
JsonObject(f) == [tag |-> "object", fields |-> f]
JsonArray     == [tag |-> "array", fields |-> ("0" :> "1")]
NoValue       == [tag |-> "none", fields |-> ("0" :> "")]

\* json.dumps: the text of a value.  A text is [wellformed, value]; a text that
\* is not JSON has wellformed = FALSE.
JsonDumps(v) == [wellformed |-> TRUE, value |-> v]

\* json.loads: the value of a text, or JSONDecodeError.
JsonLoads(text) ==
  IF text.wellformed THEN [ok |-> TRUE, value |-> text.value]
  ELSE [ok |-> FALSE, value |-> NoValue]

\* dict.get(key, default); on a value that is no dict the attribute is missing.
HasGet(v) == v.tag = "object"
Get(v, key, default) ==
  IF key \in DOMAIN v.fields THEN v.fields[key] ELSE default

DEPLOYMENT_NAME == "gpt-4o-mini-transcribe"

\* The session configuration message of send_session_config.
SessionConfig ==
  JsonObject([type |-> "transcription_session.update",
              session |-> [input_audio_format |-> "pcm16",
                           model |-> DEPLOYMENT_NAME,
                           prompt |-> "Respond in English.",
                           language |-> "en",
                           input_audio_noise_reduction |-> "near_field",
                           turn_detection |-> "server_vad"]])

\* The audio-append message stream_microphone builds for one frame.
AudioMessage(audio_data) ==
  JsonObject([type |-> "input_audio_buffer.append",
              audio |-> B64Encode(audio_data)])

IsConfig(text) == text.wellformed /\ text.value.fields.type = "transcription_session.update"
IsAudio(text)  == text.wellformed /\ text.value.fields.type = "input_audio_buffer.append"

\* Frames the device may return (bytes 0..255).
Frames == { <<0, 0>>, <<77, 97, 110>> }

\* ---------------------------------------------------------- inbound texts
T_DELTA     == "conversation.item.input_audio_transcription.delta"
T_COMPLETED == "conversation.item.input_audio_transcription.completed"
T_RDELTA    == "response.text.delta"
T_RDONE     == "response.text.done"
T_ITEM      == "item"
T_ERROR     == "error"

Malformed == [wellformed |-> FALSE, value |-> NoValue]

\* Texts of every kind: not JSON, JSON that is no object, each known event, an
\* event with an empty field, an unknown type and an object without type.
AllMessages ==
  { Malformed,
    JsonDumps(JsonArray),
    JsonDumps(JsonObject(("type" :> T_DELTA) @@ ("delta" :> "Hel"))),
    JsonDumps(JsonObject(("type" :> T_DELTA) @@ ("delta" :> ""))),
    JsonDumps(JsonObject(("type" :> T_COMPLETED) @@ ("transcript" :> "Hello world"))),
    JsonDumps(JsonObject(("type" :> T_RDELTA) @@ ("delta" :> "Hel"))),
    JsonDumps(JsonObject(("type" :> T_RDONE) @@ ("text" :> "Hello world"))),
    JsonDumps(JsonObject(("type" :> T_ITEM) @@ ("item" :> "x"))),
    JsonDumps(JsonObject(("type" :> T_ERROR) @@ ("error" :> "Test error"))),
    JsonDumps(JsonObject(("type" :> "valid_message"))),
    JsonDumps(JsonObject(("delta" :> "Hel"))) }

\* Texts the service delivers during a session.
Messages ==
  { Malformed,
    JsonDumps(JsonArray),
    JsonDumps(JsonObject(("type" :> T_DELTA) @@ ("delta" :> "Hel"))),
    JsonDumps(JsonObject(("type" :> T_COMPLETED) @@ ("transcript" :> "Hello world"))) }

\* One printed line: what is printed, the text argument, the object argument.
Line(what, arg) == [print |-> what, arg |-> arg, obj |-> NoValue]
LineObj(what, v) == [print |-> what, arg |-> "", obj |-> v]

\* Variant: the completed arm prints the delta field.
Branch_CompletedShowsDelta(data, event_type) ==
  IF event_type = T_DELTA THEN
       IF Get(data, "delta", "") # "" THEN << Line("delta", Get(data, "delta", "")) >> ELSE << >>
  ELSE IF event_type = T_COMPLETED THEN
       IF Get(data, "delta", "") # "" THEN << Line("transcript", Get(data, "delta", "")) >> ELSE << >>
  ELSE IF event_type = T_RDELTA THEN
       IF Get(data, "delta", "") # "" THEN << Line("response delta", Get(data, "delta", "")) >> ELSE << >>
  ELSE IF event_type = T_RDONE THEN
       IF Get(data, "text", "") # "" THEN << Line("response done", Get(data, "text", "")) >> ELSE << >>
  ELSE IF event_type = T_ITEM THEN
       IF Get(data, "item", "") # "" THEN << Line("Final transcript:", Get(data, "item", "")) >> ELSE << >>
  ELSE IF event_type = T_ERROR THEN << LineObj("Error event:", data) >>
  ELSE << >>

\* Variant: the item arm comes before the response arms and takes their events.
Branch_ItemTakesResponses(data, event_type) ==
  IF event_type = T_DELTA THEN
       IF Get(data, "delta", "") # "" THEN << Line("delta", Get(data, "delta", "")) >> ELSE << >>
  ELSE IF event_type = T_COMPLETED THEN
       IF Get(data, "transcript", "") # "" THEN << Line("transcript", Get(data, "transcript", "")) >> ELSE << >>
  ELSE IF event_type \in {T_ITEM, T_RDELTA, T_RDONE} THEN
       IF Get(data, "item", "") # "" THEN << Line("Final transcript:", Get(data, "item", "")) >> ELSE << >>
  ELSE IF event_type = T_ERROR THEN << LineObj("Error event:", data) >>
  ELSE << >>

\* The branch of the if/elif chain for one decoded object: the lines it prints.
Branch(data, event_type) ==
  IF event_type = T_DELTA THEN
       IF Get(data, "delta", "") # "" THEN << Line("delta", Get(data, "delta", "")) >> ELSE << >>
  ELSE IF event_type = T_COMPLETED THEN
       IF Get(data, "transcript", "") # "" THEN << Line("transcript", Get(data, "transcript", "")) >> ELSE << >>
  ELSE IF event_type = T_RDELTA THEN
       IF Get(data, "delta", "") # "" THEN << Line("response delta", Get(data, "delta", "")) >> ELSE << >>
  ELSE IF event_type = T_RDONE THEN
       IF Get(data, "text", "") # "" THEN << Line("response done", Get(data, "text", "")) >> ELSE << >>
  ELSE IF event_type = T_ITEM THEN
       IF Get(data, "item", "") # "" THEN << Line("Final transcript:", Get(data, "item", "")) >> ELSE << >>
  ELSE IF event_type = T_ERROR THEN << LineObj("Error event:", data) >>
  ELSE << >>

\* Variant: a decode error is not caught by the inner try.
HandleMessage_DecodeRaises(message) ==
  LET r == JsonLoads(message) IN
  IF ~r.ok THEN [lines |-> << >>, propagates |-> TRUE]
  ELSE IF ~HasGet(r.value)
       THEN [lines |-> << Line("Error processing message:", "AttributeError") >>,
             propagates |-> FALSE]
  ELSE LET event_type == Get(r.value, "type", "") IN
       [lines |-> << Line("Event type:", event_type) >> \o Branch(r.value, event_type),
        propagates |-> FALSE]

\* Variant: only decode errors are caught by the inner try.
HandleMessage_OnlyDecodeCaught(message) ==
  LET r == JsonLoads(message) IN
  IF ~r.ok THEN [lines |-> << >>, propagates |-> FALSE]
  ELSE IF ~HasGet(r.value)
       THEN [lines |-> << >>, propagates |-> TRUE]
  ELSE LET event_type == Get(r.value, "type", "") IN
       [lines |-> << Line("Event type:", event_type) >> \o Branch(r.value, event_type),
        propagates |-> FALSE]

\* The body of the inner try for one message: [lines, propagates].  A decode
\* error is passed over; any other exception is printed; neither leaves the loop.
HandleMessage(message) ==
  LET r == JsonLoads(message) IN
  IF ~r.ok THEN [lines |-> << >>, propagates |-> FALSE]
  ELSE IF ~HasGet(r.value)
       THEN [lines |-> << Line("Error processing message:", "AttributeError") >>,
             propagates |-> FALSE]
  ELSE LET event_type == Get(r.value, "type", "") IN
       [lines |-> << Line("Event type:", event_type) >> \o Branch(r.value, event_type),
        propagates |-> FALSE]

\* ------------------------------------------------------------------ state
\* Observations: whether the flag was ever true, its true->false (falls) and
\* false->true (rises) transitions, the external stop and the audio messages sent
\* since, the task that ended first and the audio messages sent since the
\* dispatcher ended, the length of sent when the pump failed (-1: it did not),
\* the cleanup() calls, the state the first cleanup() left, the messages the
\* dispatcher took from the channel.
Hist0 ==
  [wasActive |-> FALSE, falls |-> 0, rises |-> 0,
   stopped |-> FALSE, sentAfterStop |-> 0,
   first |-> "none", sentAfterDispExit |-> 0,
   sentAtPumpFail |-> -1,
   cleanups |-> 0, afterFirstCleanup |-> << >>,
   handled |-> << >>]

\* hist after the flag is assigned the value new.
Assigned(h, new) ==
  [h EXCEPT !.wasActive = @ \/ new,
            !.falls = IF is_streaming /\ ~new THEN @ + 1 ELSE @,
            !.rises = IF ~is_streaming /\ new THEN @ + 1 ELSE @]

\* hist after one audio message was sent.
AudioSent(h) ==
  [h EXCEPT !.sentAfterStop = IF h.stopped THEN @ + 1 ELSE @,
            !.sentAfterDispExit = IF pcDisp = "done" THEN @ + 1 ELSE @]

\* hist after a task ended.
Ended(h, task) ==
  [h EXCEPT !.first = IF @ = "none" THEN task ELSE @]

Init ==
  /\ env \in [key : BOOLEAN, endpoint : BOOLEAN]
  /\ pcCtrl = "load"
  /\ audio_interface = "none"
  /\ stream = "none"
  /\ is_streaming = FALSE
  /\ websocket = "none"
  /\ wsState = "none"
  /\ pcPump = "idle"
  /\ pumpExit = "none"
  /\ pending = << >>
  /\ framesRead = << >>
  /\ overflowed = FALSE
  /\ pcDisp = "idle"
  /\ dispExit = "none"
  /\ inbound = << >>
  /\ arrivals = 0
  /\ output = << >>
  /\ reported = {}
  /\ raised = "none"
  /\ sent = << >>
  /\ calls = [open |-> 0, stop |-> 0, close |-> 0, terminate |-> 0, late |-> 0]
  /\ hist = Hist0

\* stream.read is a blocking call made inside the pump coroutine: until it
\* returns, the event loop runs no other coroutine.
LoopFree == pcPump # "reading"

\* The channel is not part of the repository: a send may raise at any time, and
\* whether a send still succeeds once the peer has gone is the channel's choice
\* (the websockets library raises, the channel of test_connect_and_run does not).
SendCanSucceed == wsState \in {"open", "eof", "error"}

\* ------------------------------------------------------------- controller
\* Variant: only the key is checked.
ConfigPresent_KeyOnly == env.key

\* Module level: the two checks made before anything is created.
ConfigPresent == env.key /\ env.endpoint

\* Module level: both environment variables must be set, else RuntimeError.
ModuleLoad ==
  /\ pcCtrl = "load"
  /\ IF ConfigPresent
       THEN pcCtrl' = "main" /\ raised' = raised
       ELSE pcCtrl' = "config_error" /\ raised' = "RuntimeError"
  /\ UNCHANGED <<envVars, audio_interface, stream, is_streaming, websocket, wsState,
                 pumpVars, dispVars, inbound, arrivals, reported, sent, calls, hist>>

\* main: RealtimeTranscriberSDK() and the call of run().
Construct ==
  /\ pcCtrl = "main"
  /\ audio_interface' = "live"
  /\ stream' = "none"
  /\ is_streaming' = FALSE
  /\ websocket' = "none"
  /\ pcCtrl' = "setup"
  /\ UNCHANGED <<envVars, wsState, pumpVars, dispVars, inbound, arrivals, reported,
                 raised, sent, calls, hist>>

\* run: setup_audio_stream(); a failure to open the device leaves run through
\* its finally.
SetupAudioStream(ok) ==
  /\ pcCtrl = "setup"
  /\ IF ok
       THEN stream' = "open" /\ pcCtrl' = "connect" /\ raised' = raised
       ELSE stream' = stream /\ pcCtrl' = "finally_run" /\ raised' = "OSError"
  /\ UNCHANGED <<envVars, audio_interface, is_streaming, websocket, wsState, pumpVars,
                 dispVars, inbound, arrivals, reported, sent, calls, hist>>

\* Variant: the handler prints nothing.
ConnectionErrorReport_Silent == {}

\* connect_and_run: what the except handler prints.
ConnectionErrorReport == {"Connection error"}

\* Variant: a failed open is tried again.
Connect_Retries(ok) ==
  /\ pcCtrl = "connect"
  /\ calls' = [calls EXCEPT !.open = @ + 1]
  /\ IF ok
       THEN /\ websocket' = "ws"
            /\ wsState' = "open"
            /\ is_streaming' = TRUE
            /\ hist' = Assigned(hist, TRUE)
            /\ pcCtrl' = "config"
            /\ reported' = reported
       ELSE /\ reported' = reported \cup ConnectionErrorReport
            /\ pcCtrl' = "connect"
            /\ UNCHANGED <<websocket, wsState, is_streaming, hist>>
  /\ UNCHANGED <<envVars, audio_interface, stream, pumpVars, dispVars, inbound,
                 arrivals, raised, sent>>

\* connect_and_run: websockets.connect; on success the channel is stored and the
\* flag set; a failure is printed and leaves through the finally.
Connect(ok) ==
  /\ pcCtrl = "connect"
  /\ calls' = [calls EXCEPT !.open = @ + 1]
  /\ IF ok
       THEN /\ websocket' = "ws"
            /\ wsState' = "open"
            /\ is_streaming' = TRUE
            /\ hist' = Assigned(hist, TRUE)
            /\ pcCtrl' = "config"
            /\ reported' = reported
       ELSE /\ reported' = reported \cup ConnectionErrorReport
            /\ pcCtrl' = "finally_connect"
            /\ UNCHANGED <<websocket, wsState, is_streaming, hist>>
  /\ UNCHANGED <<envVars, audio_interface, stream, pumpVars, dispVars, inbound,
                 arrivals, raised, sent>>

\* Variant: the configuration is sent a second time.
ConfigSends_Twice == << JsonDumps(SessionConfig), JsonDumps(SessionConfig) >>

\* send_session_config: the messages it sends, in order.
ConfigSends == << JsonDumps(SessionConfig) >>

\* Variant: a failed configuration send is passed over and the tasks start.
SendSessionConfig_FailureIgnored(ok) ==
  /\ pcCtrl = "config"
  /\ ok => SendCanSucceed
  /\ sent' = IF ok THEN sent \o ConfigSends ELSE sent
  /\ pcPump' = "ready"
  /\ pcDisp' = "recv"
  /\ pcCtrl' = "wait"
  /\ UNCHANGED <<wsState, reported>>
  /\ UNCHANGED <<envVars, audio_interface, stream, is_streaming, websocket, pumpExit,
                 pending, framesRead, overflowed, dispExit, output, inbound, arrivals,
                 raised, calls, hist>>

\* connect_and_run: await send_session_config(), then both tasks are created and
\* gather is awaited.  A failed send leaves the async with (closing the channel)
\* and is printed as a connection error.
SendSessionConfig(ok) ==
  /\ pcCtrl = "config"
  /\ ok => SendCanSucceed
  /\ IF ok
       THEN /\ sent' = sent \o ConfigSends
            /\ pcPump' = "ready"
            /\ pcDisp' = "recv"
            /\ pcCtrl' = "wait"
            /\ UNCHANGED <<wsState, reported>>
       ELSE /\ wsState' = "closed"
            /\ reported' = reported \cup ConnectionErrorReport
            /\ pcCtrl' = "finally_connect"
            /\ UNCHANGED <<sent, pcPump, pcDisp>>
  /\ UNCHANGED <<envVars, audio_interface, stream, is_streaming, websocket, pumpExit,
                 pending, framesRead, overflowed, dispExit, output, inbound, arrivals,
                 raised, calls, hist>>

\* Variant: the wait ends with the first task that is done.
GatherDone_Either == pcPump = "done" \/ pcDisp = "done"

\* asyncio.gather(audio_task, message_task) returns when both tasks are done
\* (neither task lets an Exception out); the async with then closes the channel.
GatherDone == pcPump = "done" /\ pcDisp = "done"

GatherReturn ==
  /\ pcCtrl = "wait"
  /\ LoopFree
  /\ GatherDone
  /\ wsState' = "closed"
  /\ pcCtrl' = "finally_connect"
  /\ UNCHANGED <<envVars, audio_interface, stream, is_streaming, websocket, pumpVars,
                 dispVars, inbound, arrivals, reported, raised, sent, calls, hist>>

\* Variant: the cancelled wait leaves the tasks running.
GatherCancelled_TasksLeft ==
  /\ pcCtrl = "wait"
  /\ LoopFree
  /\ ~GatherDone
  /\ hist' = Ended(hist, "cancel")
  /\ wsState' = "closed"
  /\ pcCtrl' = "finally_connect"
  /\ UNCHANGED <<envVars, audio_interface, stream, is_streaming, websocket, pumpVars,
                 dispVars, inbound, arrivals, reported, raised, sent, calls>>

\* The controller is cancelled while it awaits gather: gather cancels the tasks
\* still running (CancelledError is no Exception, so neither handler runs), the
\* controller passes over the CancelledError and leaves the async with.
GatherCancelled ==
  /\ pcCtrl = "wait"
  /\ LoopFree
  /\ ~GatherDone
  /\ pcPump' = "done"
  /\ pumpExit' = IF pcPump = "done" THEN pumpExit ELSE "cancelled"
  /\ pending' = << >>
  /\ pcDisp' = "done"
  /\ dispExit' = IF pcDisp = "done" THEN dispExit ELSE "cancelled"
  /\ hist' = Ended(hist, "cancel")
  /\ wsState' = "closed"
  /\ pcCtrl' = "finally_connect"
  /\ UNCHANGED <<envVars, audio_interface, stream, is_streaming, websocket, framesRead,
                 overflowed, output, inbound, arrivals, reported, raised, sent, calls>>

\* cleanup(): what it assigns to the flag.
CleanupFlag == FALSE

\* Variant: the stream is released only while the flag is still set.
CleanupReleasesStream_WhileStreaming == stream # "none" /\ is_streaming

\* Variant: the interface is terminated only when a stream exists.
CleanupReleasesInterface_WithStream == audio_interface # "none" /\ stream # "none"

\* cleanup(): whether it releases the stream (if self.stream) and the interface
\* (if self.audio_interface); neither attribute is reset after the release.
CleanupReleasesStream == stream # "none"
CleanupReleasesInterface == audio_interface # "none"

\* cleanup().  Releasing a stream that is closed already may raise in
\* stop_stream (raises = TRUE) or pass; which one is the audio library's choice.
Cleanup(raises) ==
  /\ raises => (CleanupReleasesStream /\ stream = "closed")
  /\ is_streaming' = CleanupFlag
  /\ stream' = IF CleanupReleasesStream THEN "closed" ELSE stream
  /\ audio_interface' = IF CleanupReleasesInterface /\ ~raises THEN "terminated"
                        ELSE audio_interface
  /\ calls' = [calls EXCEPT
       !.stop = IF CleanupReleasesStream THEN @ + 1 ELSE @,
       !.close = IF CleanupReleasesStream /\ ~raises THEN @ + 1 ELSE @,
       !.terminate = IF CleanupReleasesInterface /\ ~raises THEN @ + 1 ELSE @,
       !.late = @ + (IF CleanupReleasesStream /\ stream = "closed"
                       THEN (IF raises THEN 1 ELSE 2) ELSE 0)
                  + (IF CleanupReleasesInterface /\ ~raises /\ audio_interface = "terminated"
                       THEN 1 ELSE 0)]
  /\ hist' = [Assigned(hist, CleanupFlag) EXCEPT
       !.cleanups = @ + 1,
       !.afterFirstCleanup =
          IF hist.cleanups = 0
            THEN << is_streaming', stream', audio_interface', websocket >>
            ELSE @]

\* connect_and_run: finally: self.cleanup()
CleanupInConnect ==
  /\ pcCtrl = "finally_connect"
  /\ Cleanup(FALSE)
  /\ pcCtrl' = "finally_run"
  /\ UNCHANGED <<envVars, websocket, wsState, pumpVars, dispVars, inbound, arrivals,
                 reported, raised, sent>>

\* run: finally: self.cleanup(); run then ends, with the exception that was on
\* its way out or with the one this cleanup raised.
CleanupInRun(raises) ==
  /\ pcCtrl = "finally_run"
  /\ Cleanup(raises)
  /\ raised' = IF raises THEN "OSError" ELSE raised
  /\ pcCtrl' = "done"
  /\ UNCHANGED <<envVars, websocket, wsState, pumpVars, dispVars, inbound, arrivals,
                 reported, sent>>

\* ------------------------------------------------------------------- pump
\* Variant: the loop does not look at the flag.
LoopCond_NoFlag == websocket # "none"

\* stream_microphone: the loop condition.
LoopCond == is_streaming /\ websocket # "none"

\* Variants: the handler sets the flag; the handler leaves the flag as it is.
PumpExceptFlag_True == TRUE
PumpExceptFlag_Keep == is_streaming

\* stream_microphone: what the except handler assigns to the flag.
PumpExceptFlag == FALSE

\* The pump at the head of its loop: it calls stream.read or returns.
PumpLoopHead ==
  IF LoopCond
    THEN pcPump' = "reading" /\ pumpExit' = pumpExit /\ hist' = hist
    ELSE pcPump' = "done" /\ pumpExit' = "flag" /\ hist' = Ended(hist, "pump")

\* The task starts running: first evaluation of the loop condition.  Once
\* created the task is run by the event loop wherever the controller stands.
PumpStart ==
  /\ pcPump = "ready"
  /\ PumpLoopHead
  /\ UNCHANGED <<envVars, ctrlVars, is_streaming, wsState, pending, framesRead,
                 overflowed, dispVars, inbound, arrivals, reported, sent>>

\* Variant: an input overflow clears the flag, though the frame is still sent.
PumpRead_OverflowStops(audio_data, overflow, ok) ==
  /\ pcPump = "reading"
  /\ ok => Len(framesRead) < MaxFrames
  /\ ~ok => ~overflow
  /\ IF ok
       THEN /\ framesRead' = Append(framesRead, audio_data)
            /\ overflowed' = overflow
            /\ pending' = << JsonDumps(AudioMessage(audio_data)) >>
            /\ pcPump' = "sending"
            /\ is_streaming' = IF overflow THEN FALSE ELSE is_streaming
            /\ hist' = IF overflow THEN Assigned(hist, FALSE) ELSE hist
            /\ UNCHANGED <<pumpExit, reported>>
       ELSE /\ is_streaming' = PumpExceptFlag
            /\ reported' = reported \cup {"Audio streaming error"}
            /\ pcPump' = "done"
            /\ pumpExit' = "error"
            /\ hist' = [Ended(Assigned(hist, PumpExceptFlag), "pump")
                          EXCEPT !.sentAtPumpFail = Len(sent)]
            /\ UNCHANGED <<framesRead, overflowed, pending>>
  /\ UNCHANGED <<envVars, ctrlVars, wsState, dispVars, inbound, arrivals, sent>>

\* stream.read(CHUNK, exception_on_overflow=False) returns or raises.  A
\* returned frame (an overflow is not raised) is encoded and its send begins; an
\* exception runs the handler, which prints it, clears the flag and ends the pump.
PumpRead(audio_data, overflow, ok) ==
  /\ pcPump = "reading"
  /\ ok => Len(framesRead) < MaxFrames
  /\ ~ok => ~overflow
  /\ IF ok
       THEN /\ framesRead' = Append(framesRead, audio_data)
            /\ overflowed' = overflow
            /\ pending' = << JsonDumps(AudioMessage(audio_data)) >>
            /\ pcPump' = "sending"
            /\ UNCHANGED <<is_streaming, pumpExit, reported, hist>>
       ELSE /\ is_streaming' = PumpExceptFlag
            /\ reported' = reported \cup {"Audio streaming error"}
            /\ pcPump' = "done"
            /\ pumpExit' = "error"
            /\ hist' = [Ended(Assigned(hist, PumpExceptFlag), "pump")
                          EXCEPT !.sentAtPumpFail = Len(sent)]
            /\ UNCHANGED <<framesRead, overflowed, pending>>
  /\ UNCHANGED <<envVars, ctrlVars, wsState, dispVars, inbound, arrivals, sent>>

\* await self.websocket.send(...) completes: the message is sent and the loop
\* condition evaluated again, or the send raises and the handler runs.
PumpSend(ok) ==
  /\ pcPump = "sending"
  /\ LoopFree
  /\ ok => SendCanSucceed
  /\ pending' = << >>
  /\ IF ok
       THEN /\ sent' = Append(sent, pending[1])
            /\ IF LoopCond
                 THEN pcPump' = "reading" /\ pumpExit' = pumpExit /\ hist' = AudioSent(hist)
                 ELSE pcPump' = "done" /\ pumpExit' = "flag"
                      /\ hist' = Ended(AudioSent(hist), "pump")
            /\ UNCHANGED <<is_streaming, reported>>
       ELSE /\ is_streaming' = PumpExceptFlag
            /\ reported' = reported \cup {"Audio streaming error"}
            /\ pcPump' = "done"
            /\ pumpExit' = "error"
            /\ hist' = [Ended(Assigned(hist, PumpExceptFlag), "pump")
                          EXCEPT !.sentAtPumpFail = Len(sent)]
            /\ sent' = sent
  /\ UNCHANGED <<envVars, ctrlVars, wsState, framesRead, overflowed, dispVars, inbound,
                 arrivals>>

\* Another coroutine clears the flag while the pump runs (the stop_after_delay
\* task of test_stream_microphone).
ExternalStop ==
  /\ pcCtrl = "wait"
  /\ LoopFree
  /\ pcPump \in {"ready", "sending"}
  /\ ~hist.stopped
  /\ is_streaming' = FALSE
  /\ hist' = [Assigned(hist, FALSE) EXCEPT !.stopped = TRUE]
  /\ UNCHANGED <<envVars, ctrlVars, wsState, pumpVars, dispVars, inbound, arrivals,
                 reported, sent>>

\* ------------------------------------------------------------- dispatcher
\* async for message in self.websocket: one message and the inner try.  An
\* exception that left the inner try would end the loop in the outer handler.
DispHandle ==
  /\ pcCtrl = "wait"
  /\ pcDisp = "recv"
  /\ LoopFree
  /\ inbound # << >>
  /\ LET h == HandleMessage(Head(inbound)) IN
       /\ output' = output \o h.lines
       /\ IF h.propagates
            THEN /\ pcDisp' = "done"
                 /\ dispExit' = "exception"
                 /\ reported' = reported \cup {"Error handling WebSocket messages"}
                 /\ hist' = [Ended(hist, "disp") EXCEPT !.handled = Append(@, Head(inbound))]
            ELSE /\ hist' = [hist EXCEPT !.handled = Append(@, Head(inbound))]
                 /\ UNCHANGED <<pcDisp, dispExit, reported>>
  /\ inbound' = Tail(inbound)
  /\ UNCHANGED <<envVars, ctrlVars, is_streaming, wsState, pumpVars, arrivals, sent>>

\* Variant: no outer try: a transport error leaves the task, gather raises it at
\* once into the controller, whose handler prints it and leaves the async with.
DispEnd_ErrorPropagates ==
  /\ pcCtrl = "wait"
  /\ pcDisp = "recv"
  /\ LoopFree
  /\ inbound = << >>
  /\ wsState \in {"eof", "error"}
  /\ pcDisp' = "done"
  /\ dispExit' = wsState
  /\ reported' = IF wsState = "error" THEN reported \cup ConnectionErrorReport ELSE reported
  /\ pcCtrl' = IF wsState = "error" THEN "finally_connect" ELSE pcCtrl
  /\ wsState' = IF wsState = "error" THEN "closed" ELSE wsState
  /\ hist' = Ended(hist, "disp")
  /\ UNCHANGED <<envVars, audio_interface, stream, websocket, raised, calls,
                 is_streaming, pumpVars, output, inbound, arrivals, sent>>

\* Variant: on its way out the dispatcher clears the flag and drops the channel
\* handle, to stop the pump.
DispEnd_StopsSession ==
  /\ pcCtrl = "wait"
  /\ pcDisp = "recv"
  /\ LoopFree
  /\ inbound = << >>
  /\ wsState \in {"eof", "error"}
  /\ pcDisp' = "done"
  /\ dispExit' = wsState
  /\ reported' = IF wsState = "error"
                   THEN reported \cup {"Error handling WebSocket messages"}
                   ELSE reported
  /\ is_streaming' = FALSE
  /\ websocket' = "none"
  /\ hist' = Ended(Assigned(hist, FALSE), "disp")
  /\ UNCHANGED <<envVars, pcCtrl, audio_interface, stream, raised, calls, wsState,
                 pumpVars, output, inbound, arrivals, sent>>

\* The iteration ends: normally when the channel was closed, with an exception
\* (printed by the outer handler) when the transport failed.  Neither path
\* touches the flag.
DispEnd ==
  /\ pcCtrl = "wait"
  /\ pcDisp = "recv"
  /\ LoopFree
  /\ inbound = << >>
  /\ wsState \in {"eof", "error"}
  /\ pcDisp' = "done"
  /\ dispExit' = wsState
  /\ reported' = IF wsState = "error"
                   THEN reported \cup {"Error handling WebSocket messages"}
                   ELSE reported
  /\ hist' = Ended(hist, "disp")
  /\ UNCHANGED <<envVars, ctrlVars, is_streaming, wsState, pumpVars, output, inbound,
                 arrivals, sent>>

\* ------------------------------------------------------------ environment
\* The service delivers a message.
Arrive(m) ==
  /\ wsState = "open"
  /\ pcCtrl = "wait"
  /\ arrivals < MaxInbound
  /\ inbound' = Append(inbound, m)
  /\ arrivals' = arrivals + 1
  /\ UNCHANGED <<envVars, ctrlVars, is_streaming, wsState, pumpVars, dispVars,
                 reported, sent, hist>>

\* The peer closes the channel (how = "eof") or the transport fails ("error").
PeerClose(how) ==
  /\ wsState = "open"
  /\ wsState' = how
  /\ UNCHANGED <<envVars, ctrlVars, is_streaming, pumpVars, dispVars, inbound,
                 arrivals, reported, sent, hist>>

Next ==
  \/ ModuleLoad
  \/ Construct
  \/ \E ok \in BOOLEAN : SetupAudioStream(ok)
  \/ \E ok \in BOOLEAN : Connect(ok)
  \/ \E ok \in BOOLEAN : SendSessionConfig(ok)
  \/ GatherReturn
  \/ GatherCancelled
  \/ CleanupInConnect
  \/ \E raises \in BOOLEAN : CleanupInRun(raises)
  \/ PumpStart
  \/ \E f \in Frames, ovf \in BOOLEAN, ok \in BOOLEAN : PumpRead(f, ovf, ok)
  \/ \E ok \in BOOLEAN : PumpSend(ok)
  \/ ExternalStop
  \/ DispHandle
  \/ DispEnd
  \/ \E m \in Messages : Arrive(m)
  \/ \E how \in {"eof", "error"} : PeerClose(how)

Spec == Init /\ [][Next]_vars

\* ------------------------------ a channel whose send fails once it is closed
\* The session on a channel that, like a websockets connection, raises from send
\* once the peer has closed it or the transport has failed, run by an event loop
\* that runs every coroutine that can run, with a device whose read returns.
\* Nothing obliges the service to send or to close, nor anyone to cancel or stop.
SendOnOpen(ok) == ok => wsState = "open"

CtrlStep ==
  \/ ModuleLoad
  \/ Construct
  \/ \E ok \in BOOLEAN : SetupAudioStream(ok)
  \/ \E ok \in BOOLEAN : Connect(ok)
  \/ \E ok \in BOOLEAN : SendOnOpen(ok) /\ SendSessionConfig(ok)
  \/ GatherReturn
  \/ CleanupInConnect
  \/ \E raises \in BOOLEAN : CleanupInRun(raises)

PumpStep ==
  \/ PumpStart
  \/ \E f \in Frames, ovf \in BOOLEAN, ok \in BOOLEAN : PumpRead(f, ovf, ok)
  \/ \E ok \in BOOLEAN : SendOnOpen(ok) /\ PumpSend(ok)

DispStep ==
  \/ DispHandle
  \/ DispEnd

StrictNext ==
  \/ CtrlStep
  \/ PumpStep
  \/ DispStep
  \/ GatherCancelled
  \/ ExternalStop
  \/ \E m \in Messages : Arrive(m)
  \/ \E how \in {"eof", "error"} : PeerClose(how)

FairSpec ==
  /\ Init
  /\ [][StrictNext]_vars
  /\ WF_vars(CtrlStep)
  /\ WF_vars(PumpStep)
  /\ WF_vars(DispStep)

\* ------------------------------------------- the dispatcher run on a feed
\* handle_websocket_messages run by itself on a channel that yields a fixed feed
\* and then ends, as the dispatcher tests run it: the transcriber is constructed,
\* its websocket set, nothing else is running.
FeedMessages ==
  AllMessages \cup
  { JsonDumps(JsonObject(("type" :> T_DELTA) @@ ("delta" :> "lo "))),
    JsonDumps(JsonObject(("type" :> T_COMPLETED) @@ ("transcript" :> "Hi"))),
    JsonDumps(JsonObject(("type" :> T_COMPLETED))) }

Feeds == UNION { [1..n -> FeedMessages] : n \in 0..MaxFeed }

FeedInit ==
  /\ env = [key |-> TRUE, endpoint |-> TRUE]
  /\ pcCtrl = "wait"
  /\ audio_interface = "live"
  /\ stream = "none"
  /\ is_streaming = FALSE
  /\ websocket = "ws"
  /\ wsState = "eof"
  /\ pcPump = "idle"
  /\ pumpExit = "none"
  /\ pending = << >>
  /\ framesRead = << >>
  /\ overflowed = FALSE
  /\ pcDisp = "recv"
  /\ dispExit = "none"
  /\ inbound \in Feeds
  /\ arrivals = Len(inbound)
  /\ output = << >>
  /\ reported = {}
  /\ raised = "none"
  /\ sent = << >>
  /\ calls = [open |-> 0, stop |-> 0, close |-> 0, terminate |-> 0, late |-> 0]
  /\ hist = Hist0

DispatchNext ==
  \/ DispHandle
  \/ DispEnd

DispatchSpec == FeedInit /\ [][DispatchNext]_vars

\* ----------------------------------------------------------------- claims
RunEnded == pcCtrl = "done"
OpenFailed == calls.open = 1 /\ websocket = "none" /\ pcCtrl \notin {"connect"}

\* C1: at every point the messages sent on the channel are none, or the
\* configuration message followed only by audio-append messages.
C1_ConfigFirstOnce ==
  \/ sent = << >>
  \/ /\ IsConfig(sent[1])
     /\ \A i \in 2..Len(sent) : IsAudio(sent[i]) /\ ~IsConfig(sent[i])

C1_Witness == Len(sent) >= 3 /\ IsConfig(sent[1]) /\ IsAudio(sent[3])

\* C2 (as claimed): once one of the two tasks has finished while the controller
\* waits, the wait can end (teardown can begin) whatever the other task does.
C2_WaitEndsOnFirstTask ==
  (pcCtrl = "wait" /\ LoopFree /\ (pcPump = "done" \/ pcDisp = "done"))
    => ENABLED GatherReturn

\* C3: when run() has ended after the audio source was acquired, the flag is
\* false, the channel (if it was opened) is closed and the stream is released.
C3_TeardownComplete ==
  (RunEnded /\ stream # "none") =>
     /\ ~is_streaming
     /\ wsState \in {"none", "closed"}
     /\ (websocket = "ws" => wsState = "closed")
     /\ stream = "closed"
     /\ calls.stop >= 1 /\ calls.close >= 1

C3_Witness ==
  /\ RunEnded /\ stream = "closed" /\ wsState = "closed"
  /\ pumpExit = "error" /\ dispExit = "eof" /\ Len(sent) >= 2

\* C4 (as claimed): in a run whose channel open failed, the stream is stopped and
\* closed exactly once and the channel reference is clear when the run ends.
C4_ReleaseOnceOnOpenFailure ==
  (RunEnded /\ OpenFailed) =>
     (calls.stop = 1 /\ calls.close = 1 /\ websocket = "none")

\* C5 (as claimed): a second cleanup() makes no release call on a stream or an
\* interface the first one released, and leaves the state as the first left it.
C5_SecondCleanupIdle ==
  hist.cleanups >= 2 =>
     /\ calls.late = 0
     /\ << is_streaming, stream, audio_interface, websocket >> = hist.afterFirstCleanup

\* C6: the flag never goes from false to true once it has been true, and goes
\* from true to false at most once in a run.
C6_FlagFallsOnce ==
  /\ [][(hist.wasActive /\ ~is_streaming) => ~is_streaming']_vars
  /\ [](hist.falls <= 1 /\ hist.rises <= 1)
  /\ [](hist.falls = 1 => ~is_streaming)

C6_Witness ==
  /\ RunEnded /\ hist.cleanups = 2 /\ hist.falls = 1
  /\ pumpExit = "error" /\ hist.stopped

\* C7: after the flag was cleared from outside while the pump ran, at most one
\* audio-append message is sent, the pump reads no further frame, and the next
\* step the pump takes ends it.
C7_StopsWithinOneCycle ==
  /\ [](hist.stopped => (hist.sentAfterStop <= 1 /\ pcPump \in {"ready", "sending", "done"}))
  /\ [](hist.stopped /\ hist.sentAfterStop = 1 => pcPump = "done")
  /\ [][(hist.stopped /\ pcPump' # pcPump) => pcPump' = "done"]_vars

C7_Witness ==
  /\ hist.stopped /\ hist.sentAfterStop = 1 /\ pcPump = "done" /\ pumpExit = "flag"
  /\ Len(framesRead) >= 2

\* C8 (as claimed): when the dispatcher is the first task to end, the pump stops
\* within one iteration: at most one audio-append message is sent afterwards and
\* the flag is false once that message is out.
C8_PumpStopsAfterDispatcher ==
  hist.first = "disp" =>
     /\ hist.sentAfterDispExit <= 1
     /\ (hist.sentAfterDispExit = 1 => ~is_streaming)

\* C9: after a read or a send failed in the pump, the flag is false, the pump has
\* ended, no further message was sent, the failure was printed by the pump and
\* did not reach the controller's handler.
C9_PumpFailureContained ==
  pumpExit = "error" =>
     /\ ~is_streaming
     /\ pcPump = "done"
     /\ pending = << >>
     /\ Len(sent) = hist.sentAtPumpFail
     /\ "Audio streaming error" \in reported
     /\ "Connection error" \notin reported

C9_Witness ==
  /\ pumpExit = "error" /\ hist.sentAtPumpFail >= 2 /\ RunEnded
  /\ Len(framesRead) > Len(sent) - 1

\* The event types of the decodable objects among the handled messages, in order.
RECURSIVE TypesOf(_)
TypesOf(ms) ==
  IF ms = << >> THEN << >>
  ELSE (IF Head(ms).wellformed /\ Head(ms).value.tag = "object"
          THEN << Get(Head(ms).value, "type", "") >> ELSE << >>) \o TypesOf(Tail(ms))

\* The event types the dispatcher printed, in order.
RECURSIVE PrintedTypes(_)
PrintedTypes(ls) ==
  IF ls = << >> THEN << >>
  ELSE (IF Head(ls).print = "Event type:" THEN << Head(ls).arg >> ELSE << >>)
         \o PrintedTypes(Tail(ls))

\* C10: taking a malformed message prints nothing and leaves the dispatcher
\* running, and the event types dispatched are those of all the valid messages
\* taken, the ones after a malformed message included.
C10_MalformedDiscarded ==
  /\ [][(inbound # << >> /\ inbound' = Tail(inbound) /\ ~Head(inbound).wellformed)
          => (output' = output /\ pcDisp' = "recv" /\ reported' = reported)]_vars
  /\ [](dispExit # "exception")
  /\ [](PrintedTypes(output) = TypesOf(hist.handled))

C10_Witness ==
  /\ Len(hist.handled) = 2
  /\ hist.handled[1] = Malformed
  /\ hist.handled[2].wellformed
  /\ output = << Line("Event type:", T_COMPLETED), Line("transcript", "Hello world") >>


\* What each handled message must have made the dispatcher print first: the
\* event type for an object, the processing error for a value that is no
\* object, nothing for a text that is not JSON.
RECURSIVE KindsOf(_)
KindsOf(ms) ==
  IF ms = << >> THEN << >>
  ELSE (IF ~Head(ms).wellformed THEN << >>
        ELSE IF Head(ms).value.tag = "object" THEN << "Event type:" >>
        ELSE << "Error processing message:" >>) \o KindsOf(Tail(ms))

\* The event-type and processing-error lines printed, in order.
RECURSIVE PrintedKinds(_)
PrintedKinds(ls) ==
  IF ls = << >> THEN << >>
  ELSE (IF Head(ls).print \in {"Event type:", "Error processing message:"}
          THEN << Head(ls).print >> ELSE << >>) \o PrintedKinds(Tail(ls))

\* C11: handling a decoded value that is no object prints the error and leaves
\* the dispatcher running; the dispatcher never ends on a handling exception, and
\* every message taken, before or after such a value, is handled in its turn.
C11_HandlingErrorContained ==
  /\ [][(inbound # << >> /\ inbound' = Tail(inbound)
           /\ Head(inbound).wellformed /\ Head(inbound).value.tag # "object")
          => (/\ pcDisp' = "recv"
              /\ output' = Append(output, Line("Error processing message:", "AttributeError"))
              /\ reported' = reported)]_vars
  /\ [](pcDisp = "done" => dispExit \in {"eof", "error", "cancelled"})
  /\ [](PrintedKinds(output) = KindsOf(hist.handled))

C11_Witness ==
  /\ Len(hist.handled) = 2
  /\ hist.handled[1] = JsonDumps(JsonArray)
  /\ output = << Line("Error processing message:", "AttributeError"),
                 Line("Event type:", T_COMPLETED), Line("transcript", "Hello world") >>

\* Decoding base64 text back to bytes (the round trip of the frames sent).
B64Index(c) == CHOOSE n \in 0..63 : B64Alphabet[n + 1] = c

B64DecodeGroup(g) ==
  LET pad == IF g[3] = "=" THEN 2 ELSE IF g[4] = "=" THEN 1 ELSE 0
      v3  == IF pad = 2 THEN 0 ELSE B64Index(g[3])
      v4  == IF pad >= 1 THEN 0 ELSE B64Index(g[4])
      n   == B64Index(g[1]) * 262144 + B64Index(g[2]) * 4096 + v3 * 64 + v4
  IN  SubSeq(<< n \div 65536, (n \div 256) % 256, n % 256 >>, 1, 3 - pad)

RECURSIVE B64Decode(_)
B64Decode(text) ==
  IF Len(text) < 4 THEN << >>
  ELSE B64DecodeGroup(SubSeq(text, 1, 4)) \o B64Decode(SubSeq(text, 5, Len(text)))

\* The audio-append messages sent, in order (all of sent after the configuration).
AudioSentSeq == IF sent = << >> THEN << >> ELSE Tail(sent)

\* C12: the k-th audio-append message sent carries the base64 text that decodes
\* to the k-th frame read; there is one message for each frame whose send
\* completed: as many as frames read, less the last one while its send is
\* pending or when that send failed or was cancelled.
C12_FramesSentInOrder ==
  /\ Len(AudioSentSeq) <= Len(framesRead)
  /\ Len(AudioSentSeq) >= Len(framesRead) - 1
  /\ (pcPump = "reading" \/ pumpExit = "flag") => Len(AudioSentSeq) = Len(framesRead)
  /\ \A k \in 1..Len(AudioSentSeq) :
        /\ IsAudio(AudioSentSeq[k])
        /\ B64Decode(AudioSentSeq[k].value.fields.audio) = framesRead[k]
        /\ Len(AudioSentSeq[k].value.fields.audio) = 4 * ((Len(framesRead[k]) + 2) \div 3)

C12_Witness ==
  /\ Len(AudioSentSeq) = 2
  /\ framesRead = << <<77, 97, 110>>, <<0, 0>> >>
  /\ AudioSentSeq[1].value.fields.audio = << "T", "W", "F", "u" >>
  /\ AudioSentSeq[2].value.fields.audio = << "A", "A", "A", "=" >>


\* C13: after the channel open failed, a connection error is reported, neither
\* task was started, nothing was sent, no frame was read, nothing was dispatched,
\* and the controller is on its way out.
C13_OpenFailureStartsNothing ==
  OpenFailed =>
     /\ "Connection error" \in reported
     /\ pcCtrl \in {"finally_connect", "finally_run", "done"}
     /\ pcPump = "idle" /\ pcDisp = "idle"
     /\ sent = << >> /\ pending = << >>
     /\ framesRead = << >>
     /\ output = << >> /\ hist.handled = << >>
     /\ ~hist.wasActive

C13_Witness == RunEnded /\ OpenFailed /\ stream = "closed"

\* The configuration send failed: the channel was opened, the controller is past
\* the send, and the configuration message is not in sent.
ConfigFailed == websocket = "ws" /\ pcCtrl # "config" /\ sent = << >>

\* C14: after the configuration send failed, a connection error is reported, the
\* channel is closed, neither task was started, no frame was read, no
\* audio-append message was sent and no inbound message was dispatched.
C14_ConfigFailureStartsNothing ==
  ConfigFailed =>
     /\ "Connection error" \in reported
     /\ pcCtrl \in {"finally_connect", "finally_run", "done"}
     /\ wsState = "closed"
     /\ pcPump = "idle" /\ pcDisp = "idle"
     /\ framesRead = << >> /\ pending = << >>
     /\ output = << >> /\ hist.handled = << >>

C14_Witness == RunEnded /\ ConfigFailed /\ calls.open = 1 /\ stream = "closed"

\* C15: with the key or the endpoint missing, the process gets no further than
\* the module-level check, which raises: no transcriber object, no audio
\* interface, no stream, no channel-open attempt.
C15_ConfigErrorBeforeAnything ==
  ~(env.key /\ env.endpoint) =>
     /\ pcCtrl \in {"load", "config_error"}
     /\ (pcCtrl = "config_error" => raised = "RuntimeError")
     /\ audio_interface = "none" /\ stream = "none"
     /\ websocket = "none" /\ wsState = "none"
     /\ calls.open = 0
     /\ sent = << >> /\ framesRead = << >>

C15_Witness == pcCtrl = "config_error" /\ env.key /\ ~env.endpoint /\ raised = "RuntimeError"

\* C17: the channel is opened at most once in a run, and never again once the
\* controller is past the open, whatever failed afterwards.
C17_SingleOpenAttempt ==
  /\ calls.open <= 1
  /\ (pcCtrl \in {"config", "wait", "finally_connect", "finally_run", "done"}
        /\ stream # "none") => calls.open = 1

C17_Witness ==
  /\ RunEnded /\ calls.open = 1 /\ pumpExit = "error" /\ dispExit = "error"


IsObject(m) == m.wellformed /\ m.value.tag = "object"
IsDelta(m) == IsObject(m) /\ Get(m.value, "type", "") = T_DELTA
IsCompleted(m) == IsObject(m) /\ Get(m.value, "type", "") = T_COMPLETED

\* ms is some transcription deltas followed by one completed event.
DeltasThenCompleted(ms) ==
  /\ Len(ms) >= 1
  /\ IsCompleted(ms[Len(ms)])
  /\ \A i \in 1..(Len(ms) - 1) : IsDelta(ms[i])

TranscriptLines(ls) == SelectSeq(ls, LAMBDA l : l.print = "transcript")

\* C16: when the messages handled are deltas followed by one completed event,
\* the one transcript line displayed is the last line of the output and shows the
\* transcript field of the completed event, whatever the deltas were (a
\* completed event whose transcript is empty or absent displays no line).
C16_FinalTranscriptIsCompleted ==
  DeltasThenCompleted(hist.handled) =>
     LET t == Get(hist.handled[Len(hist.handled)].value, "transcript", "") IN
       IF t # ""
         THEN /\ output # << >>
              /\ output[Len(output)] = Line("transcript", t)
              /\ TranscriptLines(output) = << Line("transcript", t) >>
         ELSE TranscriptLines(output) = << >>

C16_Witness ==
  /\ Len(hist.handled) = 3
  /\ DeltasThenCompleted(hist.handled)
  /\ Get(hist.handled[1].value, "delta", "") = "lo "
  /\ Get(hist.handled[2].value, "delta", "") = "Hel"
  /\ output[Len(output)] = Line("transcript", "Hi")


\* The dispatch table: for each listed type, the display action and the field
\* it displays (the error action displays the whole event).
ActionTable ==
  (T_DELTA :> [what |-> "delta", field |-> "delta"]) @@
  (T_COMPLETED :> [what |-> "transcript", field |-> "transcript"]) @@
  (T_RDELTA :> [what |-> "response delta", field |-> "delta"]) @@
  (T_RDONE :> [what |-> "response done", field |-> "text"]) @@
  (T_ITEM :> [what |-> "Final transcript:", field |-> "item"])

\* The one line the table gives for a decoded object: its action for a listed
\* type, the raw type name for any other.
TableLine(m) ==
  LET t == Get(m.value, "type", "") IN
  IF t = T_ERROR THEN LineObj("Error event:", m.value)
  ELSE IF t \in DOMAIN ActionTable
    THEN Line(ActionTable[t].what, Get(m.value, ActionTable[t].field, ""))
    ELSE Line("Event type:", t)

\* C20 (as claimed): a decoded event displays exactly one thing: the action
\* listed for its type, or the raw type name when its type is not listed.
C20_ExactlyOneAction ==
  (Len(hist.handled) = 1 /\ IsObject(hist.handled[1]))
     => output = << TableLine(hist.handled[1]) >>

\* What one handled message displays: nothing for a text that is not JSON, the
\* processing error for a value that is no object; for an object the raw type
\* name, then the listed action of its type when that type is listed and the
\* field displayed is not empty (the error action always).
Displayed(m) ==
  IF ~m.wellformed THEN << >>
  ELSE IF ~IsObject(m) THEN << Line("Error processing message:", "AttributeError") >>
  ELSE LET t == Get(m.value, "type", "") IN
       << Line("Event type:", t) >> \o
       (IF t = T_ERROR THEN << LineObj("Error event:", m.value) >>
        ELSE IF t \in DOMAIN ActionTable /\ Get(m.value, ActionTable[t].field, "") # ""
          THEN << Line(ActionTable[t].what, Get(m.value, ActionTable[t].field, "")) >>
          ELSE << >>)

RECURSIVE DisplayedAll(_)
DisplayedAll(ms) ==
  IF ms = << >> THEN << >> ELSE Displayed(Head(ms)) \o DisplayedAll(Tail(ms))

\* C20 (amended): every decoded object displays its raw type name, then only the
\* action listed for its type, and that only when the field it displays is not
\* empty; an unlisted type displays the type name alone; and taking a message
\* leaves nothing of it behind: the step removes it from the channel and changes
\* no other state of the session.
C20_TypeThenListedAction ==
  /\ [](output = DisplayedAll(hist.handled))
  /\ [][(inbound # << >> /\ inbound' = Tail(inbound))
          => /\ hist' = [hist EXCEPT !.handled = Append(@, Head(inbound))]
             /\ UNCHANGED <<ctrlVars, pumpVars, pcDisp, dispExit, is_streaming, wsState,
                            arrivals, reported, sent, envVars>>]_vars

C20_Witness ==
  /\ Len(hist.handled) = 3
  /\ Get(hist.handled[1].value, "type", "") = T_RDONE
  /\ Get(hist.handled[2].value, "type", "") = "valid_message"
  /\ Get(hist.handled[3].value, "type", "") = T_ERROR
  /\ Len(output) = 5
  /\ output[2] = Line("response done", "Hello world")
  /\ output[3] = Line("Event type:", "valid_message")
  /\ output[5].print = "Error event:"


\* C18 (as claimed): a message that has arrived can be taken by the dispatcher
\* whatever the pump is doing, also while the pump is inside a device read that
\* has not returned.
C18_DispatchWhilePumpReads ==
  (pcCtrl = "wait" /\ pcDisp = "recv" /\ inbound # << >>) => ENABLED DispHandle

\* C19: when the inbound sequence has ended or failed the dispatcher ends without
\* an exception reaching the controller (a transport failure is printed by the
\* dispatcher itself), and on a channel whose send fails once it is closed, run()
\* comes to its end after the peer closed the channel or the transport failed.
C19_DispatcherEndsOnClose ==
  /\ [](dispExit \in {"eof", "error"} =>
          /\ pcDisp = "done"
          /\ "Connection error" \notin reported
          /\ (dispExit = "error" <=> "Error handling WebSocket messages" \in reported))
  /\ [](pcDisp = "done" => dispExit \in {"eof", "error", "cancelled"})
  /\ (wsState \in {"eof", "error"} ~> RunEnded)

C19_Witness ==
  /\ RunEnded /\ dispExit = "eof" /\ pumpExit = "error"
  /\ Len(sent) >= 2 /\ Len(hist.handled) >= 1 /\ hist.first = "disp"


\* C21: a read during which the device reports an input overflow returns its
\* frame like any other read: the flag, the pump's exit and the printed reports
\* are left as they were and the frame's send begins; that send puts the encoded
\* frame on the channel, and with the flag still set the pump goes on to read.
C21_OverflowTolerated ==
  /\ [][(framesRead' # framesRead /\ overflowed') =>
          /\ is_streaming' = is_streaming
          /\ reported' = reported
          /\ pumpExit' = pumpExit
          /\ pcPump' = "sending"
          /\ pending' = << JsonDumps(AudioMessage(framesRead'[Len(framesRead')])) >>]_vars
  /\ [][(overflowed /\ pcPump = "sending" /\ sent' # sent) =>
          /\ sent' = Append(sent, JsonDumps(AudioMessage(framesRead[Len(framesRead)])))
          /\ is_streaming' = is_streaming
          /\ (LoopCond => pcPump' = "reading")]_vars

C21_Witness ==
  /\ overflowed /\ is_streaming /\ pcPump = "reading"
  /\ Len(framesRead) = 1 /\ Len(sent) = 2
  /\ "Audio streaming error" \notin reported


\* The channel has been opened by the controller and not yet closed by it (the
\* body of the async with).
InSession == websocket # "none" /\ wsState \in {"open", "eof", "error"}

\* C22: a send, of the configuration or of an audio message, is awaited only
\* between the controller's opening of the channel and its closing of it, and
\* every message put on the channel is put there in that interval, however the
\* pump's steps interleave with the controller's teardown.
C22_SendsWhileChannelOpen ==
  /\ [](pcPump = "sending" => InSession)
  /\ [](pcCtrl = "config" => InSession)
  /\ [](~InSession /\ wsState = "none" => sent = << >>)
  /\ [][sent' # sent => InSession /\ pcCtrl \in {"config", "wait"}]_vars

C22_Witness ==
  /\ wsState = "closed" /\ hist.cleanups >= 1
  /\ Len(sent) = 3 /\ pumpExit # "none"


\* C23: a device read is in progress only on the open stream and before any
\* cleanup() has run, every frame is read before the stream is first released,
\* and when the stream is released the pump has ended or was never started.
C23_ReadsBeforeRelease ==
  /\ [](pcPump = "reading" => stream = "open" /\ hist.cleanups = 0)
  /\ [](calls.stop > 0 => pcPump \in {"idle", "done"})
  /\ [][framesRead' # framesRead => stream = "open" /\ calls.stop = 0]_vars

C23_Witness ==
  /\ calls.stop >= 1 /\ stream = "closed"
  /\ Len(framesRead) = 2 /\ pcPump = "done"


\* C24: a step of the dispatcher, the handling of a message or its exit for
\* whatever reason, leaves the flag, the channel handle, the stream handle and the
\* audio interface as they were.
C24_DispatcherKeepsSessionState ==
  [][(pcDisp = "recv" /\ (hist'.handled # hist.handled \/ pcDisp' = "done")) =>
       /\ is_streaming' = is_streaming
       /\ websocket' = websocket
       /\ stream' = stream
       /\ audio_interface' = audio_interface]_vars

C24_Witness ==
  /\ dispExit = "error" /\ Len(hist.handled) = 2
  /\ is_streaming /\ websocket = "ws" /\ stream = "open"
  /\ pcPump \in {"reading", "sending"}


\* run() is in or past its finally block without a stream: setup_audio_stream
\* raised.
SetupFailed == pcCtrl \in {"finally_run", "done"} /\ stream = "none"

\* C25: when the device cannot be opened, no channel open is attempted, no task
\* is started and nothing is sent; cleanup() runs once, releases no stream,
\* terminates the audio interface, and run() ends with the device's error.
C25_SetupFailureCleansUp ==
  /\ SetupFailed =>
       /\ calls.open = 0 /\ websocket = "none" /\ wsState = "none"
       /\ sent = << >> /\ reported = {}
       /\ pcPump = "idle" /\ pcDisp = "idle"
       /\ raised = "OSError"
       /\ calls.stop = 0 /\ calls.close = 0
  /\ (SetupFailed /\ pcCtrl = "finally_run") =>
       /\ hist.cleanups = 0
       /\ ENABLED CleanupInRun(FALSE)
       /\ ~ENABLED CleanupInRun(TRUE)
  /\ (SetupFailed /\ RunEnded) =>
       /\ hist.cleanups = 1
       /\ calls.terminate = 1 /\ audio_interface = "terminated"
       /\ calls.late = 0
       /\ ~is_streaming

C25_Witness ==
  /\ RunEnded /\ stream = "none" /\ raised = "OSError"
  /\ calls.terminate = 1 /\ calls.open = 0

====
